---- MODULE Spec2Model ----
(***************************************************************************)
(* Model of the ARTS model-adapter layer: ModelFactory.create and the      *)
(* call() method of OpenAILikeModel, AnthropicModel and GeminiModel        *)
(* (src/core/models).                                                      *)
(*                                                                         *)
(* Python values are represented as follows.                               *)
(*   str           a TLA+ string for opaque values (roles, contents,       *)
(*                 credentials); a sequence of one-character strings       *)
(*                 where the code looks inside the string (model names,    *)
(*                 provider texts).                                        *)
(*   None          the string "None" (never used as an ordinary str).      *)
(*   dict, kwargs  records.                                                *)
(*   list          sequences.                                              *)
(*   float         temperatures in tenths (7 is 0.7).                      *)
(***************************************************************************)
EXTENDS Integers, Sequences, FiniteSets, TLC

VARIABLES
    env,        \* os.environ restricted to the four credential slots
    adapter,    \* the object ModelFactory.create returned (demo.py `model`)
    created,    \* outcome of the ModelFactory.create call
    pc,         \* where the caller / the running call() is
    messages,   \* the caller's conversation, the list passed to call()
    conversation, \* the content of that list when the caller passed it
    args,       \* call()'s parameters after binding
    locals,     \* call()'s local variables set before the retry loop
    attempt,    \* the loop variable of `for attempt in range(MAX_RETRIES)`
    log,        \* transport calls and sleeps of the current call(), in order
    sent,       \* the request transmitted by each attempt, in order
    last,       \* what the most recent attempt met: a response or an exception
    result,     \* the value call() returned
    err,        \* the exception call() raised to its caller
    threads,    \* the frames of call()s that run concurrently, one per thread
    reused,     \* the adapter has served an earlier call() that has ended
    engine,     \* a Z3VerificationEngine: variables, solver, constraints_added
    engine_call, \* the engine's most recent method call: the engine before it
                \* and the exception it raised
    chunks      \* the text received so far from the open stream of the
                \* Claude adapter's running attempt

vars == <<env, adapter, created, pc, messages, conversation, args, locals,
          attempt, log, sent, last, result, err, threads, reused,
          engine, engine_call, chunks>>

\* the variables of the adapter layer
adapterVars == <<env, adapter, created, pc, messages, conversation, args,
                 locals, attempt, log, sent, last, result, err, threads,
                 reused, chunks>>

None == "None"

-----------------------------------------------------------------------------
(* Bounds of the model *)

\* longest conversation passed to call()
MaxLen == 3
\* a model name of the factory specification is made of at most this many tokens
MaxNameTokens == 2

-----------------------------------------------------------------------------
(* Constants of the code *)

MAX_RETRIES == 6
REQUEST_DELAY == 1
MAX_TOKENS == 16384
DefaultTemperature == 0

ACK == "OK, I will strictly follow these directives."
DEEPSEEK_URL == "https://api.deepseek.com"

-----------------------------------------------------------------------------
(* Strings the code looks into *)

\* Characters are one-character strings; the two characters outside ASCII
\* whose lower-case form holds a letter of the words claude, gemini and
\* deepseek are written by their code points, and so is the combining dot.
KELVIN_SIGN == "U+212A"
CAPITAL_I_WITH_DOT == "U+0130"
COMBINING_DOT_ABOVE == "U+0307"

\* str.lower() of one character: the characters it turns into
Lower(c) ==
    CASE c = "A" -> <<"a">> [] c = "B" -> <<"b">> [] c = "C" -> <<"c">> [] c = "D" -> <<"d">>
      [] c = "E" -> <<"e">> [] c = "F" -> <<"f">> [] c = "G" -> <<"g">> [] c = "H" -> <<"h">>
      [] c = "I" -> <<"i">> [] c = "J" -> <<"j">> [] c = "K" -> <<"k">> [] c = "L" -> <<"l">>
      [] c = "M" -> <<"m">> [] c = "N" -> <<"n">> [] c = "O" -> <<"o">> [] c = "P" -> <<"p">>
      [] c = "Q" -> <<"q">> [] c = "R" -> <<"r">> [] c = "S" -> <<"s">> [] c = "T" -> <<"t">>
      [] c = "U" -> <<"u">> [] c = "V" -> <<"v">> [] c = "W" -> <<"w">> [] c = "X" -> <<"x">>
      [] c = "Y" -> <<"y">> [] c = "Z" -> <<"z">>
      [] c = KELVIN_SIGN -> <<"k">>
      [] c = CAPITAL_I_WITH_DOT -> <<"i", COMBINING_DOT_ABOVE>>
      [] OTHER -> <<c>>

\* str.lower()
RECURSIVE lower(_)
lower(s) == IF s = <<>> THEN <<>> ELSE Lower(Head(s)) \o lower(Tail(s))

\* Python `sub in s`
Contains(sub, s) ==
    \E i \in 1..(Len(s) - Len(sub) + 1) : SubSeq(s, i, i + Len(sub) - 1) = sub

CLAUDE == <<"c", "l", "a", "u", "d", "e">>
GEMINI == <<"g", "e", "m", "i", "n", "i">>
DEEPSEEK == <<"d", "e", "e", "p", "s", "e", "e", "k">>

-----------------------------------------------------------------------------
(* ModelFactory.create, src/core/models/factory.py *)

Keys == {"ANTHROPIC_API_KEY", "GOOGLE_API_KEY", "DEEPSEEK_API_KEY", "OPENAI_API_KEY"}

\* a credential that is set; one value per slot, so that a read of the wrong
\* slot shows in the adapter
Secret(key) ==
    CASE key = "ANTHROPIC_API_KEY" -> "sk-ant"
      [] key = "GOOGLE_API_KEY" -> "sk-goog"
      [] key = "DEEPSEEK_API_KEY" -> "sk-deep"
      [] key = "OPENAI_API_KEY" -> "sk-oai"

\* os.getenv(key): None when the variable is not set
getenv(e, key) == e[key]

\* the environments: every slot unset, set to the empty string, or set
Envs == {e \in [Keys -> {None, "", "sk-ant", "sk-goog", "sk-deep", "sk-oai"}] :
            \A k \in Keys : e[k] \in {None, "", Secret(k)}}

FullEnv == [k \in Keys |-> Secret(k)]
EmptyEnv == [k \in Keys |-> None]

\* the chain with the gemini test ahead of the claude test
BranchGeminiFirst(model_name_lower) ==
    IF Contains(GEMINI, model_name_lower) THEN "gemini"
    ELSE IF Contains(CLAUDE, model_name_lower) THEN "claude"
    ELSE IF Contains(DEEPSEEK, model_name_lower) THEN "deepseek"
    ELSE "default"

\* the if / elif chain of create(): the branch taken for a lower-cased name
Branch(model_name_lower) ==
    IF Contains(CLAUDE, model_name_lower) THEN "claude"
    ELSE IF Contains(GEMINI, model_name_lower) THEN "gemini"
    ELSE IF Contains(DEEPSEEK, model_name_lower) THEN "deepseek"
    ELSE "default"

\* the deepseek branch's message copied from the default branch
KeyNamedCopied(branch) ==
    CASE branch = "claude" -> "ANTHROPIC_API_KEY"
      [] branch = "gemini" -> "GOOGLE_API_KEY"
      [] branch = "deepseek" -> "OPENAI_API_KEY"
      [] branch = "default" -> "OPENAI_API_KEY"

\* the environment variable each branch names in its error message
KeyNamed(branch) ==
    CASE branch = "claude" -> "ANTHROPIC_API_KEY"
      [] branch = "gemini" -> "GOOGLE_API_KEY"
      [] branch = "deepseek" -> "DEEPSEEK_API_KEY"
      [] branch = "default" -> "OPENAI_API_KEY"

\* the deepseek branch reading the slot of the default branch
KeyOfShared(branch) ==
    CASE branch = "claude" -> "ANTHROPIC_API_KEY"
      [] branch = "gemini" -> "GOOGLE_API_KEY"
      [] branch = "deepseek" -> "OPENAI_API_KEY"
      [] branch = "default" -> "OPENAI_API_KEY"

\* the environment variable each branch reads
KeyOf(branch) ==
    CASE branch = "claude" -> "ANTHROPIC_API_KEY"
      [] branch = "gemini" -> "GOOGLE_API_KEY"
      [] branch = "deepseek" -> "DEEPSEEK_API_KEY"
      [] branch = "default" -> "OPENAI_API_KEY"

\* the adapter class each branch instantiates
ClassOf(branch) ==
    CASE branch = "claude" -> "AnthropicModel"
      [] branch = "gemini" -> "GeminiModel"
      [] branch = "deepseek" -> "OpenAILikeModel"
      [] branch = "default" -> "OpenAILikeModel"

\* the base_url each branch passes to the constructor
BaseUrlOf(branch) == IF branch = "deepseek" THEN DEEPSEEK_URL ELSE None

\* `api_key is None`: an empty string passes
NotSetNoneOnly(api_key) == api_key = None

\* `not api_key`
NotSet(api_key) == api_key = None \/ api_key = ""

\* raise ValueError("Environment variable '<key>' is not set.")
MissingKeyError(key) ==
    [type |-> "ValueError",
     message |-> <<"Environment variable '", key, "' is not set.">>]

\* BaseModel.__init__ and the constructors of the three adapters
NewAdapter(cls, model_name, api_key, base_url) ==
    [cls |-> cls, model_name |-> model_name, api_key |-> api_key,
     base_url |-> base_url]

NoAdapter == NewAdapter(None, <<>>, None, None)
NoError == [type |-> None, message |-> <<>>]

\* ModelFactory.create(model_name) in environment e: what it returns or raises
ModelFactoryCreate(model_name, e) ==
    LET branch == Branch(lower(model_name))
        api_key == getenv(e, KeyOf(branch))
    IN  IF NotSet(api_key)
        THEN [outcome |-> "raised", model |-> NoAdapter,
              error |-> MissingKeyError(KeyNamed(branch))]
        ELSE [outcome |-> "returned",
              model |-> NewAdapter(ClassOf(branch), model_name, api_key,
                                   BaseUrlOf(branch)),
              error |-> NoError]

NotCreated == [name |-> <<>>, outcome |-> None, error |-> NoError]

\* demo.py main(): model = ModelFactory.create(model_name); on an exception
\* main() reports it and returns
Create(model_name) ==
    /\ pc = "start"
    /\ LET r == ModelFactoryCreate(model_name, env)
       IN  /\ created' = [name |-> model_name, outcome |-> r.outcome,
                          error |-> r.error]
           /\ adapter' = IF r.outcome = "returned" THEN r.model ELSE adapter
           /\ pc' = IF r.outcome = "returned" THEN "ready" ELSE "init_failed"
    /\ UNCHANGED <<env, messages, conversation, args, locals, attempt, log,
                   sent, last, result, err, threads, reused, engine,
                   engine_call, chunks>>

-----------------------------------------------------------------------------
(* Inputs of call() *)

Roles == {"system", "user", "assistant"}
Contents == {"c1", "c2", "c3", "c4"}
Message(role, content) == [role |-> role, content |-> content]
Messages == {Message(r, c) : r \in Roles, c \in Contents}

\* the content of the message at position i of a conversation: positions
\* differ, so that a message dropped, added or moved shows
ContentAt(i) ==
    CASE i = 1 -> "c1" [] i = 2 -> "c2" [] i = 3 -> "c3" [] OTHER -> "c4"

\* the conversations: the lists of at most MaxLen messages, the empty one
\* too, with every order of roles
Conversations ==
    UNION {{m \in [1..n -> Messages] : \A i \in 1..n : m[i].content = ContentAt(i)} :
                n \in 0..MaxLen}

\* response_format values: None, or a dict with a "type" entry
NoFormat == [isNone |-> TRUE, type |-> None]
Format(t) == [isNone |-> FALSE, type |-> t]
JsonObject == Format("json_object")
ResponseFormats == {NoFormat, JsonObject, Format("text")}

\* temperatures a caller passes (in tenths)
CallerTemperatures == {7}

\* the keyword arguments of a call: `given` are the keywords the caller wrote,
\* an omitted one has the default of the signature
CallArgs ==
    {a \in [given : SUBSET {"temperature", "response_format"},
            temperature : CallerTemperatures \cup {DefaultTemperature},
            response_format : ResponseFormats] :
        /\ ("temperature" \in a.given) = (a.temperature \in CallerTemperatures)
        /\ ("response_format" \notin a.given) => a.response_format = NoFormat}

\* the keyword parameters of each adapter's call()
Params(cls) ==
    IF cls = "GeminiModel" THEN {"temperature"}
    ELSE {"temperature", "response_format"}

\* texts a provider answers with
ProviderTexts == {<<>>, <<"a">>, <<"{", "a">>}

\* kinds of exception an attempt ends with: a permanent provider rejection, a
\* transient one, a failure while reading the text out of the response
ErrorKinds == {"permanent", "transient", "extract"}

\* what one attempt meets
Outcomes ==
    {[ok |-> TRUE, text |-> t, kind |-> None] : t \in ProviderTexts} \cup
    {[ok |-> FALSE, text |-> <<>>, kind |-> k] : k \in ErrorKinds}

\* kinds of exception of the Claude adapter's streamed call: the stream breaks
\* while stream.text_stream is drained, stream.get_final_message() fails
StreamKinds == {"stream", "final"}

\* the text of the chunks received before a streamed call failed
PartialTexts == {<<"a">>}

StreamOutcomes ==
    {[ok |-> FALSE, text |-> t, kind |-> k] : t \in PartialTexts, k \in StreamKinds}

-----------------------------------------------------------------------------
(* AnthropicModel.call before the retry loop, src/core/models/anthropic.py *)

LeadingSystem(msgs) == msgs # <<>> /\ msgs[1].role = "system"

\* the content of the first system message, wherever it stands
system_prompt_anywhere(msgs) ==
    LET at == {i \in 1..Len(msgs) : msgs[i].role = "system"}
    IN  IF at = {} THEN ""
        ELSE msgs[CHOOSE i \in at : \A j \in at : i <= j].content

system_prompt(msgs) == IF LeadingSystem(msgs) THEN msgs[1].content ELSE ""

\* the system message left in the array
active_messages_unsliced(msgs) == msgs

active_messages(msgs) == IF LeadingSystem(msgs) THEN Tail(msgs) ELSE msgs

\* a prefill for every response_format that is given
should_prefill_any(rf) == ~rf.isNone

\* response_format and response_format.get("type") == "json_object"
should_prefill(rf) == ~rf.isNone /\ rf.type = "json_object"

PREFILL == Message("assistant", "{")

messages_to_send(msgs, rf) ==
    LET copy == [i \in 1..Len(active_messages(msgs)) |-> active_messages(msgs)[i]]
    IN  IF should_prefill(rf) THEN Append(copy, PREFILL) ELSE copy

\* the list object messages_to_send names, when the copy is left out: the
\* slice messages[1:] or the caller's list itself
AppendTargetAliased(msgs) == IF LeadingSystem(msgs) THEN "slice" ELSE "caller"

\* the list object messages_to_send names: the list comprehension of
\* msg.copy() builds a new list, whatever active_messages names
AppendTarget(msgs) == "copy"

\* the caller's list after the code before the retry loop: only append()
\* changes a list, and it changes the list messages_to_send names
ClaudeCallerList(msgs, rf) ==
    IF should_prefill(rf) /\ AppendTarget(msgs) = "caller"
    THEN Append(msgs, PREFILL)
    ELSE msgs

\* the brace not put back
ClaudeTextRaw(raw_content, prefill) == raw_content

\* raw_content as returned: the brace put back when it was prefilled
ClaudeText(raw_content, prefill) ==
    IF prefill THEN <<"{">> \o raw_content ELSE raw_content

-----------------------------------------------------------------------------
(* GeminiModel.call before the retry loop, src/core/models/google.py *)

GeminiTurn(role, content) == [role |-> role, parts |-> <<content>>]

\* only assistant renamed, any other role passed through
GeminiRoleAssistantOnly(role) == IF role = "assistant" THEN "model" ELSE role

GeminiRole(role) == IF role = "user" THEN "user" ELSE "model"

\* the first system message taken out and injected, wherever it stands
gemini_messages_anywhere(msgs) ==
    LET at == {i \in 1..Len(msgs) : msgs[i].role = "system"}
        k == IF at = {} THEN 0 ELSE CHOOSE i \in at : \A j \in at : i <= j
        head == IF k # 0
                THEN <<GeminiTurn("user", msgs[k].content), GeminiTurn("model", ACK)>>
                ELSE <<>>
        conversation_messages ==
            IF k # 0 THEN SubSeq(msgs, 1, k - 1) \o SubSeq(msgs, k + 1, Len(msgs))
            ELSE msgs
    IN  head \o [i \in 1..Len(conversation_messages) |->
                    GeminiTurn(GeminiRole(conversation_messages[i].role),
                               conversation_messages[i].content)]

gemini_messages(msgs) ==
    LET head == IF LeadingSystem(msgs)
                THEN <<GeminiTurn("user", msgs[1].content), GeminiTurn("model", ACK)>>
                ELSE <<>>
        conversation_messages == IF LeadingSystem(msgs) THEN Tail(msgs) ELSE msgs
    IN  head \o [i \in 1..Len(conversation_messages) |->
                    GeminiTurn(GeminiRole(conversation_messages[i].role),
                               conversation_messages[i].content)]

generation_config(temperature) ==
    [max_output_tokens |-> MAX_TOKENS, temperature |-> temperature]

-----------------------------------------------------------------------------
(* OpenAILikeModel.call, src/core/models/openai_like.py *)

\* the request with the system message taken out, as the Claude adapter does
OpenAIRequestStripped(ad, msgs, a) ==
    [model |-> ad.model_name,
     messages |-> active_messages(msgs),
     temperature |-> a.temperature,
     max_completion_tokens |-> MAX_TOKENS,
     response_format |-> a.response_format]

\* the arguments of client.chat.completions.create
OpenAIRequest(ad, msgs, a) ==
    [model |-> ad.model_name,
     messages |-> msgs,
     temperature |-> a.temperature,
     max_completion_tokens |-> MAX_TOKENS,
     response_format |-> a.response_format]

-----------------------------------------------------------------------------
(* call() of the three adapters *)

\* the caller's list after the code before the retry loop; the Gemini and the
\* OpenAI adapter only read it
CallerList(cls, msgs, a) ==
    IF cls = "AnthropicModel" THEN ClaudeCallerList(msgs, a.response_format)
    ELSE msgs

NoLocals == [cls |-> None]

\* the local variables call() sets before its retry loop
Preamble(cls, msgs, a) ==
    CASE cls = "AnthropicModel" ->
            [cls |-> cls,
             system_prompt |-> system_prompt(msgs),
             should_prefill |-> should_prefill(a.response_format),
             messages_to_send |-> messages_to_send(msgs, a.response_format)]
      [] cls = "GeminiModel" ->
            [cls |-> cls,
             gemini_messages |-> gemini_messages(msgs),
             generation_config |-> generation_config(a.temperature)]
      [] cls = "OpenAILikeModel" -> [cls |-> cls]

\* a request built inside the loop: every retry appends the prefill again
RequestBuiltPerAttempt(ad, msgs, a, loc) ==
    CASE ad.cls = "AnthropicModel" ->
            [model |-> ad.model_name,
             system |-> loc.system_prompt,
             messages |-> IF loc.should_prefill /\ attempt > 0
                          THEN Append(loc.messages_to_send, PREFILL)
                          ELSE loc.messages_to_send,
             temperature |-> a.temperature,
             max_tokens |-> MAX_TOKENS]
      [] ad.cls = "GeminiModel" ->
            [contents |-> loc.gemini_messages,
             generation_config |-> loc.generation_config]
      [] ad.cls = "OpenAILikeModel" -> OpenAIRequest(ad, msgs, a)

\* the arguments of the transport call of one attempt
Request(ad, msgs, a, loc) ==
    CASE ad.cls = "AnthropicModel" ->
            [model |-> ad.model_name,
             system |-> loc.system_prompt,
             messages |-> loc.messages_to_send,
             temperature |-> a.temperature,
             max_tokens |-> MAX_TOKENS]
      [] ad.cls = "GeminiModel" ->
            [contents |-> loc.gemini_messages,
             generation_config |-> loc.generation_config]
      [] ad.cls = "OpenAILikeModel" -> OpenAIRequest(ad, msgs, a)

\* a call that returns the trailing default instead of the attempt's text
ReturnedDefault(ad, loc, text) == <<>>

\* the value a successful attempt returns for the provider's text
Returned(ad, loc, text) ==
    IF ad.cls = "AnthropicModel" THEN ClaudeText(text, loc.should_prefill)
    ELSE text

\* a counter that goes on from where the adapter's previous call left it
RangeStartKept(left) == left

\* `for attempt in range(MAX_RETRIES)`: the first value of the loop variable,
\* whatever value an earlier call left
RangeStart(left) == 0

\* `for attempt in range(MAX_RETRIES)`: the loop body runs for this value
InRange(n) == n < MAX_RETRIES

\* the test written against MAX_RETRIES instead of MAX_RETRIES - 1
IsLastAttemptOffByOne(n) == n = MAX_RETRIES

\* `if attempt == MAX_RETRIES - 1`
IsLastAttempt(n) == n = MAX_RETRIES - 1

\* a handler that retries transient failures only
CaughtTransientOnly(kind) == kind = "transient"

\* `except Exception as e`: the kinds of exception the handler catches
Caught(kind) == kind \in ErrorKinds \cup StreamKinds

\* an attempt that hands on the chunks it received when the stream broke
CompletedOrPartial(o) == o.ok \/ o.kind = "stream"

\* the try block reached its `return`: no statement of it raised
Completed(o) == o.ok

\* the exception wrapped in a new one instead of `raise e`
ReraisedWrapped(e) == [kind |-> "wrapped", attempt |-> e.attempt]

\* `raise e`: the exception that leaves call()
Reraised(e) == e

\* the exception raised by the attempt with loop variable n
Exception(kind, n) == [kind |-> kind, attempt |-> n + 1]
NoException == [kind |-> None, attempt |-> 0]

\* what the attempt with loop variable n met
Met(o, n) == [ok |-> o.ok, text |-> o.text, kind |-> o.kind, attempt |-> n + 1]
NoOutcome == [ok |-> FALSE, text |-> <<>>, kind |-> None, attempt |-> 0]

\* binding a keyword call() does not declare
TypeError == [kind |-> "TypeError", attempt |-> 0]

TransportCall == [op |-> "transport", secs |-> 0]

\* a delay that doubles with every failed attempt
SleepBackoff == [op |-> "sleep", secs |-> REQUEST_DELAY * 2 ^ attempt]

\* time.sleep(REQUEST_DELAY)
Sleep == [op |-> "sleep", secs |-> REQUEST_DELAY]

Ended == {"returned", "raised", "returned_default"}

\* the caller invokes adapter.call(msgs, **a): argument binding and the code
\* before the retry loop
CallStart(msgs, a) ==
    /\ pc = "ready"
    /\ conversation' = msgs
    /\ messages' = CallerList(adapter.cls, msgs, a)
    /\ args' = a
    /\ attempt' = RangeStart(attempt)
    /\ log' = <<>>
    /\ sent' = <<>>
    /\ last' = NoOutcome
    /\ result' = <<>>
    /\ IF a.given \subseteq Params(adapter.cls)
       THEN /\ locals' = Preamble(adapter.cls, msgs, a)
            /\ err' = NoException
            /\ pc' = "loop"
       ELSE /\ locals' = NoLocals
            /\ err' = TypeError
            /\ pc' = "raised"
    /\ UNCHANGED <<env, adapter, created, threads, reused, engine,
                   engine_call, chunks>>

\* what an attempt can meet while the transport call is at point p: before
\* the Claude adapter's stream has delivered text the call itself fails or
\* answers, afterwards the stream breaks, its final message cannot be had or
\* read, or it answers
OutcomesAt(cls, p) ==
    IF cls # "AnthropicModel" THEN Outcomes
    ELSE IF p = "transport" THEN Outcomes
    ELSE {o \in Outcomes \cup StreamOutcomes : o.kind \notin {"permanent", "transient"}}

\* the pcs at which call() waits inside the transport call
InTransport == {"transport", "stream"}

\* the pcs of a call() inside its retry loop
InLoop == {"loop", "sleep"} \cup InTransport

\* the top of one iteration of the retry loop: the loop's end, or the try
\* block up to the transport call, which is handed the request and blocks
AttemptStart ==
    /\ pc = "loop"
    /\ IF ~InRange(attempt)
       THEN \* return ""
            /\ pc' = "returned_default"
            /\ result' = <<>>
            /\ UNCHANGED <<log, sent>>
       ELSE /\ sent' = Append(sent, Request(adapter, messages, args, locals))
            /\ log' = Append(log, TransportCall)
            /\ pc' = "transport"
            /\ UNCHANGED result
    /\ UNCHANGED <<env, adapter, created, messages, conversation, args,
                   locals, attempt, last, err, threads, reused, engine,
                   engine_call, chunks>>

\* `for _ in stream.text_stream: pass`: the open stream of the Claude adapter
\* has delivered the text t and is not finished
StreamChunk(t) ==
    /\ pc = "transport"
    /\ adapter.cls = "AnthropicModel"
    /\ chunks' = t
    /\ pc' = "stream"
    /\ UNCHANGED <<env, adapter, created, messages, conversation, args,
                   locals, attempt, log, sent, last, result, err, threads,
                   reused, engine, engine_call>>

\* the transport call of the running attempt ends with outcome o: the rest of
\* the try block, or the handler up to its raise or to time.sleep, in which
\* call() blocks
AttemptEnd(o) ==
    /\ pc \in InTransport
    /\ o \in OutcomesAt(adapter.cls, pc)
    /\ o.kind \in StreamKinds => o.text = chunks
    /\ last' = Met(o, attempt)
    /\ chunks' = <<>>
    /\ IF Completed(o)
       THEN /\ result' = Returned(adapter, locals, o.text)
            /\ pc' = "returned"
            /\ UNCHANGED <<log, err>>
       ELSE IF ~Caught(o.kind)
       THEN /\ err' = Exception(o.kind, attempt)
            /\ pc' = "raised"
            /\ UNCHANGED <<log, result>>
       ELSE IF IsLastAttempt(attempt)
       THEN /\ err' = Reraised(Exception(o.kind, attempt))
            /\ pc' = "raised"
            /\ UNCHANGED <<log, result>>
       ELSE /\ log' = Append(log, Sleep)
            /\ pc' = "sleep"
            /\ UNCHANGED <<result, err>>
    /\ UNCHANGED <<env, adapter, created, messages, conversation, args,
                   locals, attempt, sent, threads, reused, engine,
                   engine_call>>

\* time.sleep(REQUEST_DELAY) returns: the loop variable takes its next value
SleepEnd ==
    /\ pc = "sleep"
    /\ attempt' = attempt + 1
    /\ pc' = "loop"
    /\ UNCHANGED <<env, adapter, created, messages, conversation, args,
                   locals, log, sent, last, result, err, threads, reused,
                   engine, engine_call, chunks>>

\* call() has ended: the caller takes what it returned or raised, the frame
\* of the call is gone and the adapter can be called again
Consume ==
    /\ pc \in Ended
    /\ pc' = "ready"
    /\ messages' = <<>>
    /\ conversation' = <<>>
    /\ args' = [given |-> {}, temperature |-> DefaultTemperature,
                response_format |-> NoFormat]
    /\ locals' = NoLocals
    /\ log' = <<>>
    /\ sent' = <<>>
    /\ last' = NoOutcome
    /\ result' = <<>>
    /\ err' = NoException
    /\ reused' = TRUE
    /\ UNCHANGED <<env, adapter, created, attempt, threads, engine,
                   engine_call, chunks>>

-----------------------------------------------------------------------------
(* Z3VerificationEngine, src/core/verification/z3_engine.py *)
(*                                                                         *)
(* self.variables, a dict, is the sequence of its entries in insertion     *)
(* order, each the z3 constant [name, sort] stored under its name.  The    *)
(* solver is the sequence of the expressions asserted in it.  A str() of a *)
(* value is the value's text.                                              *)

\* the most expressions the solver is given
MaxAssertions == 1

\* variable names a caller uses
EngineNames == {"x", "y"}

\* var_type arguments a caller passes; "text" is not a type of the engine
VarTypes == {"int", "real", "bool", "text"}

\* the operators add_constraint knows
Operators == {"==", "!=", ">", "<", ">=", "<="}

\* operator arguments a caller passes; "=>" is not an operator of the engine
OperatorArgs == Operators \cup {"=>"}

\* rhs_value arguments a caller passes: an int or a str, with its str() text
RhsValues ==
    {[kind |-> "int", text |-> "5"]} \cup
    {[kind |-> "str", text |-> n] : n \in EngineNames}

\* raw z3 expressions a caller passes to inject_formula
Formulas == {[op |-> "raw", lhs |-> "f1", rhs |-> "f1"]}

\* Z3VerificationEngine.__init__
NewEngine == [variables |-> <<>>, assertions |-> <<>>, constraints_added |-> <<>>]

NoEngineCall == [op |-> None, raised |-> NoError, before |-> NewEngine]

\* `name in self.variables`
Registered(variables, name) ==
    \E i \in 1..Len(variables) : variables[i].name = name

\* self.variables[name]
VariableRef(variables, name) ==
    variables[CHOOSE i \in 1..Len(variables) : variables[i].name = name]

\* z3.Int(name), z3.Real(name), z3.Bool(name)
SortOf(var_type) ==
    CASE var_type = "int" -> "Int"
      [] var_type = "real" -> "Real"
      [] var_type = "bool" -> "Bool"

\* register_variable(name, var_type): the dict afterwards and what it raised
register_variable(variables, name, var_type) ==
    IF Registered(variables, name)
    THEN [variables |-> variables, raised |-> NoError]
    ELSE IF var_type \in {"int", "real", "bool"}
    THEN [variables |-> Append(variables, [name |-> name, sort |-> SortOf(var_type)]),
          raised |-> NoError]
    ELSE [variables |-> variables,
          raised |-> [type |-> "ValueError",
                      message |-> <<"Unsupported Z3 variable type: ", var_type>>]]

\* the dict after the first statement of add_constraint: lhs_name registered
\* with the default var_type "int" when it was not in the dict
LhsRegistered(variables, lhs_name) ==
    IF Registered(variables, lhs_name) THEN variables
    ELSE register_variable(variables, lhs_name, "int").variables

\* rhs: the registered variable a str names, otherwise the value itself
Rhs(variables, rhs_value) ==
    IF rhs_value.kind = "str" /\ Registered(variables, rhs_value.text)
    THEN [kind |-> "var", text |-> rhs_value.text,
          sort |-> VariableRef(variables, rhs_value.text).sort]
    ELSE [kind |-> rhs_value.kind, text |-> rhs_value.text, sort |-> None]

\* what z3 can do with the comparison `lhs <operator> rhs`: it builds the
\* expression when lhs is an Int or Real constant and rhs an int or a
\* registered constant; for a Bool lhs, and for a rhs that is a str naming no
\* registered variable, building or raising is z3's choice
Z3Outcomes(variables, lhs_name, rhs) ==
    IF VariableRef(variables, lhs_name).sort = "Bool"
    THEN {"built", "TypeError", "Z3Exception"}
    ELSE IF rhs.kind = "str" THEN {"built", "Z3Exception"}
    ELSE {"built"}

\* add_constraint(lhs_name, operator, rhs_value) when z3 does z with the
\* comparison: the engine afterwards and what was raised
add_constraint(e, lhs_name, operator, rhs_value, z) ==
    LET variables == LhsRegistered(e.variables, lhs_name)
        rhs == Rhs(variables, rhs_value)
        lhs == VariableRef(variables, lhs_name)
    IN  IF operator \notin Operators
        THEN [engine |-> [e EXCEPT !.variables = variables],
              raised |-> [type |-> "ValueError",
                          message |-> <<"Unknown operator: ", operator>>]]
        ELSE IF z # "built"
        THEN [engine |-> [e EXCEPT !.variables = variables],
              raised |-> [type |-> z, message |-> <<>>]]
        ELSE [engine |->
                [variables |-> variables,
                 assertions |-> Append(e.assertions,
                                       [op |-> operator, lhs |-> lhs.name,
                                        rhs |-> rhs.text]),
                 constraints_added |-> Append(e.constraints_added,
                                              <<lhs_name, " ", operator, " ",
                                                rhs_value.text>>)],
              raised |-> NoError]

\* a caller invokes engine.register_variable(name, var_type)
RegisterVariable(name, var_type) ==
    /\ LET r == register_variable(engine.variables, name, var_type)
       IN  /\ engine' = [engine EXCEPT !.variables = r.variables]
           /\ engine_call' = [op |-> "register_variable", raised |-> r.raised,
                              before |-> engine]
    /\ UNCHANGED adapterVars

\* a caller invokes engine.add_constraint(lhs_name, operator, rhs_value),
\* and z3 does z with the comparison if the call gets to build one
AddConstraint(lhs_name, operator, rhs_value, z) ==
    /\ LET variables == LhsRegistered(engine.variables, lhs_name)
       IN  IF operator \in Operators
           THEN z \in Z3Outcomes(variables, lhs_name, Rhs(variables, rhs_value))
           ELSE z = "built"
    /\ (operator \in Operators /\ z = "built") =>
            Len(engine.assertions) < MaxAssertions
    /\ LET r == add_constraint(engine, lhs_name, operator, rhs_value, z)
       IN  /\ engine' = r.engine
           /\ engine_call' = [op |-> "add_constraint", raised |-> r.raised,
                              before |-> engine]
    /\ UNCHANGED adapterVars

\* a caller invokes engine.inject_formula(formula_expression)
InjectFormula(formula_expression) ==
    /\ Len(engine.assertions) < MaxAssertions
    /\ engine' = [engine EXCEPT !.assertions = Append(@, formula_expression)]
    /\ engine_call' = [op |-> "inject_formula", raised |-> NoError,
                       before |-> engine]
    /\ UNCHANGED adapterVars

\* a caller invokes engine.reset()
Reset ==
    /\ engine' = [variables |-> <<>>, assertions |-> <<>>,
                  constraints_added |-> <<>>]
    /\ engine_call' = [op |-> "reset", raised |-> NoError, before |-> engine]
    /\ UNCHANGED adapterVars

-----------------------------------------------------------------------------
(* The program: demo.py creates one adapter and calls it *)

\* "claude-3-5-sonnet", "gemini-2.5-pro", "deepseek-chat", "gpt-4o"
CallerNames ==
    {<<"c","l","a","u","d","e","-","3","-","5","-","s","o","n","n","e","t">>,
     <<"g","e","m","i","n","i","-","2",".","5","-","p","r","o">>,
     <<"d","e","e","p","s","e","e","k","-","c","h","a","t">>,
     <<"g","p","t","-","4","o">>}

Init ==
    /\ env \in {FullEnv, EmptyEnv}
    /\ adapter = NoAdapter
    /\ created = NotCreated
    /\ pc = "start"
    /\ messages = <<>>
    /\ conversation = <<>>
    /\ args = [given |-> {}, temperature |-> DefaultTemperature,
               response_format |-> NoFormat]
    /\ locals = NoLocals
    /\ attempt = 0
    /\ log = <<>>
    /\ sent = <<>>
    /\ last = NoOutcome
    /\ result = <<>>
    /\ err = NoException
    /\ threads = <<>>
    /\ reused = FALSE
    /\ engine = NewEngine
    /\ engine_call = NoEngineCall
    /\ chunks = <<>>

Next ==
    \/ \E n \in CallerNames : Create(n)
    \/ \E msgs \in Conversations, a \in CallArgs : CallStart(msgs, a)
    \/ AttemptStart
    \/ \E t \in PartialTexts : StreamChunk(t)
    \/ \E o \in Outcomes \cup StreamOutcomes : AttemptEnd(o)
    \/ SleepEnd
    \/ Consume

Spec == Init /\ [][Next]_vars

-----------------------------------------------------------------------------
(* The factory alone, over many names and every environment *)

Tokens ==
    {<<"c","l","a","u","d","e">>, <<"G","E","M","I","N","I">>,
     <<"D","e","e","p","S","e","e","k">>, <<"g","p","t">>,
     <<"C","l","a","u">>, <<"d","e","-">>, <<"B","Z","4","O">>,
     <<"d","e","e","p","s","e","e",KELVIN_SIGN>>,
     <<"G","E","M","I","N",CAPITAL_I_WITH_DOT>>}

RECURSIVE NamesOf(_)
NamesOf(n) ==
    IF n = 0 THEN {<<>>}
    ELSE NamesOf(n - 1) \cup {s \o t : s \in NamesOf(n - 1), t \in Tokens}

Names == NamesOf(MaxNameTokens)

InitFactory ==
    /\ env \in Envs
    /\ adapter = NoAdapter
    /\ created = NotCreated
    /\ pc = "start"
    /\ messages = <<>>
    /\ conversation = <<>>
    /\ args = [given |-> {}, temperature |-> DefaultTemperature,
               response_format |-> NoFormat]
    /\ locals = NoLocals
    /\ attempt = 0
    /\ log = <<>>
    /\ sent = <<>>
    /\ last = NoOutcome
    /\ result = <<>>
    /\ err = NoException
    /\ threads = <<>>
    /\ reused = FALSE
    /\ engine = NewEngine
    /\ engine_call = NoEngineCall
    /\ chunks = <<>>

NextFactory == \E n \in Names : Create(n)

SpecFactory == InitFactory /\ [][NextFactory]_vars

-----------------------------------------------------------------------------
(* Two threads, each running one call() on an adapter of its own *)

ThreadIds == {1, 2}

\* the adapters the factory makes for the caller's names
Adapters == {ModelFactoryCreate(n, FullEnv).model : n \in CallerNames}

ThreadConversations ==
    {<<Message("system", "c1"), Message("user", "c2")>>,
     <<Message("user", "c1")>>}

ThreadArgs ==
    {a \in CallArgs : a.given \in {{}, {"response_format"}}
                        /\ a.response_format \in {NoFormat, JsonObject}}

ThreadOutcomes ==
    {o \in Outcomes : (o.ok /\ o.text = <<"a">>) \/ o.kind = "transient"} \cup
    {o \in StreamOutcomes : o.kind = "stream"}

\* a loop variable kept in one place for every call, a module-level counter
AttemptCellShared(c) == 1

\* where the loop variable `attempt` of thread c's call lives: a local
\* variable, in the frame of that call
AttemptCell(c) == c

\* the frame of a thread that has not called yet
IdleFrame(ad) ==
    [adapter |-> ad, pc |-> "ready", messages |-> <<>>,
     args |-> [given |-> {}, temperature |-> DefaultTemperature,
               response_format |-> NoFormat],
     locals |-> NoLocals, attempt |-> 0, sent |-> <<>>, last |-> NoOutcome,
     result |-> <<>>, err |-> NoException, met |-> 0, chunks |-> <<>>]

\* thread c invokes its adapter's call(msgs, **a): as CallStart
ThreadStart(c, msgs, a) ==
    LET t == threads[c]
        bound == a.given \subseteq Params(t.adapter.cls)
        frame == [t EXCEPT
                    !.messages = CallerList(t.adapter.cls, msgs, a),
                    !.args = a,
                    !.locals = IF bound THEN Preamble(t.adapter.cls, msgs, a)
                               ELSE NoLocals,
                    !.err = IF bound THEN NoException ELSE TypeError,
                    !.pc = IF bound THEN "loop" ELSE "raised"]
        started == [threads EXCEPT ![c] = frame]
    IN  /\ t.pc = "ready"
        /\ threads' = [started EXCEPT ![AttemptCell(c)].attempt = 0]
        /\ UNCHANGED <<env, adapter, created, pc, messages, conversation, args,
                       locals, attempt, log, sent, last, result, err, reused,
                       engine, engine_call, chunks>>

\* the top of one iteration of the retry loop of thread c's call: as
\* AttemptStart
ThreadAttemptStart(c) ==
    LET t == threads[c]
        n == threads[AttemptCell(c)].attempt
    IN  /\ t.pc = "loop"
        /\ IF ~InRange(n)
           THEN threads' = [threads EXCEPT ![c].pc = "returned_default"]
           ELSE threads' = [threads EXCEPT
                    ![c].sent = Append(t.sent, Request(t.adapter, t.messages,
                                                       t.args, t.locals)),
                    ![c].pc = "transport"]
        /\ UNCHANGED <<env, adapter, created, pc, messages, conversation, args,
                       locals, attempt, log, sent, last, result, err, reused,
                       engine, engine_call, chunks>>

\* the open stream of thread c's Claude adapter has delivered the text s: as
\* StreamChunk
ThreadStreamChunk(c, s) ==
    LET t == threads[c]
    IN  /\ t.pc = "transport"
        /\ t.adapter.cls = "AnthropicModel"
        /\ threads' = [threads EXCEPT ![c].chunks = s, ![c].pc = "stream"]
        /\ UNCHANGED <<env, adapter, created, pc, messages, conversation, args,
                       locals, attempt, log, sent, last, result, err, reused,
                       engine, engine_call, chunks>>

\* the transport call of thread c's running attempt ends with outcome o: as
\* AttemptEnd
ThreadAttemptEnd(c, o) ==
    LET t == threads[c]
        n == threads[AttemptCell(c)].attempt
        tried == [t EXCEPT !.last = Met(o, n), !.met = t.met + 1,
                           !.chunks = <<>>]
    IN  /\ t.pc \in InTransport
        /\ o \in OutcomesAt(t.adapter.cls, t.pc)
        /\ o.kind \in StreamKinds => o.text = t.chunks
        /\ IF Completed(o)
           THEN threads' = [threads EXCEPT ![c] =
                    [tried EXCEPT !.pc = "returned",
                                  !.result = Returned(t.adapter, t.locals, o.text)]]
           ELSE IF ~Caught(o.kind) \/ IsLastAttempt(n)
           THEN threads' = [threads EXCEPT ![c] =
                    [tried EXCEPT !.pc = "raised",
                                  !.err = IF Caught(o.kind)
                                          THEN Reraised(Exception(o.kind, n))
                                          ELSE Exception(o.kind, n)]]
           ELSE threads' = [threads EXCEPT ![c] = [tried EXCEPT !.pc = "sleep"]]
        /\ UNCHANGED <<env, adapter, created, pc, messages, conversation, args,
                       locals, attempt, log, sent, last, result, err, reused,
                       engine, engine_call, chunks>>

\* time.sleep(REQUEST_DELAY) returns in thread c: as SleepEnd
ThreadSleepEnd(c) ==
    LET t == threads[c]
        n == threads[AttemptCell(c)].attempt
        awake == [threads EXCEPT ![c].pc = "loop"]
    IN  /\ t.pc = "sleep"
        /\ threads' = [awake EXCEPT ![AttemptCell(c)].attempt = n + 1]
        /\ UNCHANGED <<env, adapter, created, pc, messages, conversation, args,
                       locals, attempt, log, sent, last, result, err, reused,
                       engine, engine_call, chunks>>

InitConcurrent ==
    /\ env = FullEnv
    /\ adapter = NoAdapter
    /\ created = NotCreated
    /\ pc = "start"
    /\ messages = <<>>
    /\ conversation = <<>>
    /\ args = [given |-> {}, temperature |-> DefaultTemperature,
               response_format |-> NoFormat]
    /\ locals = NoLocals
    /\ attempt = 0
    /\ log = <<>>
    /\ sent = <<>>
    /\ last = NoOutcome
    /\ result = <<>>
    /\ err = NoException
    /\ reused = FALSE
    /\ engine = NewEngine
    /\ engine_call = NoEngineCall
    /\ chunks = <<>>
    /\ threads \in {[c \in ThreadIds |-> IdleFrame(f[c])] : f \in [ThreadIds -> Adapters]}

NextConcurrent ==
    \/ \E c \in ThreadIds, msgs \in ThreadConversations, a \in ThreadArgs :
            ThreadStart(c, msgs, a)
    \/ \E c \in ThreadIds : ThreadAttemptStart(c)
    \/ \E c \in ThreadIds, s \in PartialTexts : ThreadStreamChunk(c, s)
    \/ \E c \in ThreadIds, o \in ThreadOutcomes : ThreadAttemptEnd(c, o)
    \/ \E c \in ThreadIds : ThreadSleepEnd(c)

SpecConcurrent == InitConcurrent /\ [][NextConcurrent]_vars

-----------------------------------------------------------------------------
(* A caller driving one Z3VerificationEngine *)

InitEngine ==
    /\ env = EmptyEnv
    /\ adapter = NoAdapter
    /\ created = NotCreated
    /\ pc = "start"
    /\ messages = <<>>
    /\ conversation = <<>>
    /\ args = [given |-> {}, temperature |-> DefaultTemperature,
               response_format |-> NoFormat]
    /\ locals = NoLocals
    /\ attempt = 0
    /\ log = <<>>
    /\ sent = <<>>
    /\ last = NoOutcome
    /\ result = <<>>
    /\ err = NoException
    /\ threads = <<>>
    /\ reused = FALSE
    /\ engine = NewEngine
    /\ engine_call = NoEngineCall
    /\ chunks = <<>>

NextEngine ==
    \/ \E n \in EngineNames, t \in VarTypes : RegisterVariable(n, t)
    \/ \E n \in EngineNames, o \in OperatorArgs, v \in RhsValues,
          z \in {"built", "TypeError", "Z3Exception"} :
            AddConstraint(n, o, v, z)
    \/ \E f \in Formulas : InjectFormula(f)
    \/ Reset

SpecEngine == InitEngine /\ [][NextEngine]_vars

-----------------------------------------------------------------------------
(* Properties of the retry loop *)

Calls(l) == Cardinality({i \in 1..Len(l) : l[i].op = "transport"})
Sleeps(l) == Cardinality({i \in 1..Len(l) : l[i].op = "sleep"})

\* every sleep of l lasts the fixed delay and lies between two transport calls
SleepsBetweenCalls(l) ==
    \A i \in 1..Len(l) :
        l[i].op = "sleep" =>
            /\ l[i].secs = 1
            /\ 1 < i /\ i < Len(l)
            /\ l[i - 1].op = "transport"
            /\ l[i + 1].op = "transport"

\* the six attempts of the current call have all failed
AllAttemptsFailed == last.attempt = 6 /\ ~last.ok

\* C1: when the transport has failed on all 6 attempts of a call, the
\* transport was called exactly 6 times, the call has raised to its caller
\* exactly the exception of the 6th attempt, and it has slept the fixed delay
\* exactly 5 times, each sleep between two attempts and none after the last.
C1_Exhaustion ==
    AllAttemptsFailed =>
        /\ pc = "raised"
        /\ Len(sent) = 6
        /\ last.attempt = 6
        /\ err = [kind |-> last.kind, attempt |-> 6]
        /\ Sleeps(log) = 5
        /\ Len(log) = 11
        /\ SleepsBetweenCalls(log)

C1_Witness ==
    /\ AllAttemptsFailed
    /\ pc = "raised"
    /\ adapter.cls = "GeminiModel"

\* C2: when the first k attempts (k in 0..5) failed and attempt k+1 met a
\* response, the call has returned the text of that response (for the Claude
\* adapter possibly behind the prefilled brace), it has raised nothing, and
\* the successful transport call is the last thing the call did.
C2_Recovery ==
    last.ok =>
        /\ pc = "returned"
        /\ err = NoException
        /\ last.attempt \in 1..6
        /\ Calls(log) = last.attempt
        /\ Len(sent) = last.attempt
        /\ Sleeps(log) = last.attempt - 1
        /\ log[Len(log)].op = "transport"
        /\ IF adapter.cls = "AnthropicModel"
           THEN result \in {last.text, <<"{">> \o last.text}
           ELSE result = last.text

C2_Witness ==
    /\ pc = "returned"
    /\ last.ok
    /\ last.attempt = 6
    /\ last.text = <<"a">>
    /\ result = <<"a">>

\* the call is in the sleep that follows its failed attempt k, or has
\* finished that sleep and stands before or inside attempt k + 1
RetryingAfter(k) ==
    /\ pc \in InLoop
    /\ err = NoException
    /\ Len(log) >= 2 * k
    /\ log[2 * k - 1].op = "transport"
    /\ log[2 * k].op = "sleep"
    /\ pc = "sleep" => attempt = k - 1 /\ Len(log) = 2 * k /\ Len(sent) = k
    /\ pc = "loop" => attempt = k /\ Len(log) = 2 * k /\ Len(sent) = k
    /\ pc \in InTransport =>
            attempt = k /\ Len(log) = 2 * k + 1 /\ Len(sent) = k + 1

\* C3: an exception raised inside an attempt is handled the same way whatever
\* its kind: after a failed attempt 1..5 the call stays in its loop, sleeps
\* and goes on to the next attempt, and a call that raised an attempt's
\* exception to its caller has made all 6 attempts.
C3_EveryKindRetried ==
    /\ (~last.ok /\ last.attempt \in 1..5) => RetryingAfter(last.attempt)
    /\ (pc = "raised" /\ err.attempt # 0) =>
            /\ err.attempt = 6
            /\ Calls(log) = 6

C3_Witness ==
    /\ pc = "loop"
    /\ last.kind = "permanent"
    /\ last.attempt = 5
    /\ attempt = 5

\* C4: a call never ends by the `return ""` behind the retry loop: the loop
\* never runs out of attempts, and a call that has ended has returned from an
\* attempt that met a response or has raised an exception.
C4_NoDefaultResult ==
    /\ pc # "returned_default"
    /\ pc = "loop" => attempt < 6
    /\ pc \in Ended =>
            \/ pc = "returned" /\ last.ok /\ err = NoException
            \/ pc = "raised" /\ err # NoException /\ ~last.ok /\ result = <<>>
    /\ (pc = "returned" /\ result = <<>>) => last.text = <<>>

C4_Witness ==
    /\ pc = "raised"
    /\ err.attempt = 6
    /\ err.kind = "transient"
    /\ adapter.cls = "AnthropicModel"

\* C5: a call of the Claude adapter with response_format json_object returns
\* the character { followed by the text of the response the successful
\* attempt met, so a text that starts with {; with another response_format it
\* returns the text of the response unchanged.
C5_PrefillRestored ==
    (adapter.cls = "AnthropicModel" /\ pc = "returned") =>
        IF args.response_format = JsonObject
        THEN /\ result = <<"{">> \o last.text
             /\ Head(result) = "{"
             /\ Tail(result) = last.text
        ELSE result = last.text

C5_Witness ==
    /\ adapter.cls = "AnthropicModel"
    /\ pc = "returned"
    /\ args.response_format = JsonObject
    /\ last.attempt = 3
    /\ last.text = <<"a">>
    /\ result = <<"{", "a">>

-----------------------------------------------------------------------------
(* Properties of the requests the adapters transmit *)

\* C6: when the first message of the conversation has role system, every
\* request of the Claude adapter carries that message's content as its system
\* field, and its message array leaves that message out and holds the
\* remaining messages in their order (behind them at most the prefill).
C6_ClaudeSystemExtracted ==
    (adapter.cls = "AnthropicModel" /\ messages # <<>>
        /\ messages[1].role = "system") =>
        \A i \in 1..Len(sent) :
            LET m == sent[i].messages
                n == Len(messages) - 1
            IN  /\ sent[i].system = messages[1].content
                /\ Len(m) \in {n, n + 1}
                /\ \A j \in 1..n : m[j] = messages[j + 1]
                /\ Len(m) = n + 1 =>
                        m[n + 1] = [role |-> "assistant", content |-> "{"]

\* two messages behind the leading system message, sent in their order
C6_Witness ==
    /\ adapter.cls = "AnthropicModel"
    /\ Len(messages) = 3
    /\ messages[1] = Message("system", "c1")
    /\ messages[2] = Message("user", "c2")
    /\ messages[3] = Message("assistant", "c3")
    /\ Len(sent) = 2
    /\ sent[2].system = "c1"
    /\ sent[2].messages = <<Message("user", "c2"), Message("assistant", "c3")>>

\* C7: when the first message of the conversation has role system, every
\* request of the Gemini adapter starts with a user turn carrying the system
\* content and a model turn carrying the fixed acknowledgment, followed by
\* exactly one turn per remaining message, in order, with role user kept and
\* every other role turned into model.
C7_GeminiRemap ==
    (adapter.cls = "GeminiModel" /\ messages # <<>>
        /\ messages[1].role = "system") =>
        \A i \in 1..Len(sent) :
            LET c == sent[i].contents
            IN  /\ Len(c) = Len(messages) + 1
                /\ c[1] = [role |-> "user", parts |-> <<messages[1].content>>]
                /\ c[2] = [role |-> "model",
                           parts |-> <<"OK, I will strictly follow these directives.">>]
                /\ \A j \in 2..Len(messages) :
                        /\ c[j + 1].parts = <<messages[j].content>>
                        /\ messages[j].role = "user" => c[j + 1].role = "user"
                        /\ messages[j].role # "user" => c[j + 1].role = "model"

\* two messages behind the leading system message, a second system message
\* and a user message, remapped in their order
C7_Witness ==
    /\ adapter.cls = "GeminiModel"
    /\ Len(messages) = 3
    /\ messages[1] = Message("system", "c1")
    /\ messages[2] = Message("system", "c2")
    /\ messages[3] = Message("user", "c3")
    /\ Len(sent) = 1
    /\ Len(sent[1].contents) = 4
    /\ sent[1].contents[3] = [role |-> "model", parts |-> <<"c2">>]
    /\ sent[1].contents[4] = [role |-> "user", parts |-> <<"c3">>]

\* C8: a call of the Gemini adapter that passes response_format json_object
\* is accepted, and what it transmits is the request of the same call with
\* no response_format.
C8_GeminiAcceptsResponseFormat ==
    (adapter.cls = "GeminiModel" /\ pc \in InLoop \cup Ended
        /\ "response_format" \in args.given
        /\ args.response_format = JsonObject) =>
        /\ err # TypeError
        /\ \A i \in 1..Len(sent) :
                sent[i] = [contents |-> gemini_messages(messages),
                           generation_config |-> generation_config(args.temperature)]

-----------------------------------------------------------------------------
(* Properties of ModelFactory.create *)

\* the word occurs in the name when letter case is disregarded
ContainsIgnoringCase(word, name) ==
    LET RECURSIVE Folded(_)
        Folded(n) == IF n = <<>> THEN <<>> ELSE Lower(Head(n)) \o Folded(Tail(n))
        folded == Folded(name)
    IN  \E i \in 0..(Len(folded) - Len(word)) :
            \A j \in 1..Len(word) : folded[i + j] = word[j]

\* the rule list of the factory: the first rule whose word the name contains
Rule(name) ==
    IF ContainsIgnoringCase(CLAUDE, name) THEN 1
    ELSE IF ContainsIgnoringCase(GEMINI, name) THEN 2
    ELSE IF ContainsIgnoringCase(DEEPSEEK, name) THEN 3
    ELSE 4

RuleClass(r) ==
    CASE r = 1 -> "AnthropicModel" [] r = 2 -> "GeminiModel"
      [] r = 3 -> "OpenAILikeModel" [] r = 4 -> "OpenAILikeModel"

RuleUrl(r) == IF r = 3 THEN "https://api.deepseek.com" ELSE None

RuleKey(r) ==
    CASE r = 1 -> "ANTHROPIC_API_KEY" [] r = 2 -> "GOOGLE_API_KEY"
      [] r = 3 -> "DEEPSEEK_API_KEY" [] r = 4 -> "OPENAI_API_KEY"

\* C9: create() goes by the first rule, in the order claude, gemini,
\* deepseek, default, whose word the name contains, whatever the letter case
\* of the name: the adapter it returns has that rule's class and endpoint and
\* the name as given, and an error it raises is about that rule's credential.
C9_FirstMatchWins ==
    pc # "start" =>
        LET r == Rule(created.name)
        IN  /\ created.outcome = "returned" =>
                    /\ adapter.cls = RuleClass(r)
                    /\ adapter.base_url = RuleUrl(r)
                    /\ adapter.model_name = created.name
            /\ created.outcome = "raised" =>
                    created.error.message[2] = RuleKey(r)

\* "GEMINI" followed by "claude"
C9_Witness ==
    /\ created.name = <<"G","E","M","I","N","I","c","l","a","u","d","e">>
    /\ created.outcome = "returned"
    /\ adapter.cls = "AnthropicModel"

\* C10: when the credential of the matched rule is absent, create() raises at
\* once the error that names that rule's environment variable; no adapter
\* exists afterwards, and no transport call and no sleep have happened.
C10_MissingCredential ==
    (pc # "start" /\ env[RuleKey(Rule(created.name))] = None) =>
        /\ pc = "init_failed"
        /\ created.outcome = "raised"
        /\ created.error.type = "ValueError"
        /\ created.error.message =
                <<"Environment variable '", RuleKey(Rule(created.name)),
                  "' is not set.">>
        /\ adapter = NoAdapter
        /\ log = <<>>
        /\ sent = <<>>
        /\ attempt = 0

\* "deepseek-chat" with no credential set
C10_Witness ==
    /\ pc = "init_failed"
    /\ env = EmptyEnv
    /\ Rule(created.name) = 3
    /\ created.error.message[2] = "DEEPSEEK_API_KEY"

-----------------------------------------------------------------------------
(* Properties of the conversation and of the requests, continued *)

\* C11: no adapter changes the caller's conversation: while a call runs and
\* after it has ended, by a return on any attempt or by a raise, the caller's
\* list has the length, the order and the roles and contents it had when it
\* was passed.
C11_CallerConversationUnchanged ==
    pc \in InLoop \cup Ended =>
        /\ Len(messages) = Len(conversation)
        /\ \A i \in 1..Len(conversation) :
                /\ messages[i].role = conversation[i].role
                /\ messages[i].content = conversation[i].content

C11_Witness ==
    /\ adapter.cls = "AnthropicModel"
    /\ pc = "returned"
    /\ args.response_format = JsonObject
    /\ conversation = <<Message("user", "c1"), Message("assistant", "c2")>>
    /\ messages = conversation
    /\ Len(sent) = 2
    /\ Len(sent[2].messages) = 3

\* C12: every attempt of the OpenAI-protocol adapter transmits the
\* conversation as passed (a leading system message included, nothing added
\* or removed), the caller's temperature, the token ceiling 16384 and the
\* caller's response_format.
C12_OpenAIPassThrough ==
    adapter.cls = "OpenAILikeModel" =>
        \A i \in 1..Len(sent) :
            /\ sent[i].messages = conversation
            /\ sent[i].temperature = args.temperature
            /\ sent[i].max_completion_tokens = 16384
            /\ sent[i].response_format = args.response_format
            /\ sent[i].model = adapter.model_name

C12_Witness ==
    /\ adapter.cls = "OpenAILikeModel"
    /\ adapter.base_url = DEEPSEEK_URL
    /\ conversation = <<Message("system", "c1"), Message("user", "c2")>>
    /\ args.response_format = JsonObject
    /\ args.temperature = 7
    /\ Len(sent) = 3
    /\ sent[3].messages[1] = Message("system", "c1")

\* C13: in the Claude adapter a stream that breaks while its chunks are
\* drained, or a failure to read the final message, is a failed attempt: the
\* call returns nothing made of the chunks received, after attempts 1..5 it
\* sleeps and goes on to the next attempt, and after attempt 6 it raises that
\* attempt's exception.
C13_BrokenStreamIsFailure ==
    (adapter.cls = "AnthropicModel" /\ last.kind \in {"stream", "final"}) =>
        /\ pc # "returned"
        /\ result = <<>>
        /\ last.attempt < 6 => RetryingAfter(last.attempt)
        /\ last.attempt = 6 =>
                /\ pc = "raised"
                /\ err = [kind |-> last.kind, attempt |-> 6]
                /\ Calls(log) = 6

C13_Witness ==
    /\ adapter.cls = "AnthropicModel"
    /\ last.kind = "stream"
    /\ last.text = <<"a">>
    /\ last.attempt = 2
    /\ pc = "sleep"
    /\ args.response_format = JsonObject

-----------------------------------------------------------------------------
(* Properties of concurrent calls *)

\* C14: under every interleaving of two calls on distinct adapters, each call
\* goes by its own inputs and its own transport outcomes alone: its attempt
\* counter counts its own failed attempts, every request it has transmitted
\* is the request of its own adapter, conversation and arguments, and what it
\* returns or raises comes from the last outcome it met itself.
C14_CallsIndependent ==
    \A c \in ThreadIds :
        LET t == threads[c]
            own == Request(t.adapter, t.messages, t.args,
                           Preamble(t.adapter.cls, t.messages, t.args))
        IN  /\ Len(t.sent) = IF t.pc \in InTransport THEN t.met + 1 ELSE t.met
            /\ t.met <= 6
            /\ t.pc \in {"loop"} \cup InTransport => t.attempt = t.met
            /\ t.pc = "sleep" => t.attempt = t.met - 1
            /\ t.pc \in InLoop => t.last.attempt = t.met
            /\ \A i \in 1..Len(t.sent) : t.sent[i] = own
            /\ t.pc = "returned" =>
                    /\ t.last.ok /\ t.last.attempt = t.met
                    /\ t.result \in {t.last.text, <<"{">> \o t.last.text}
            /\ (t.pc = "raised" /\ t.err # TypeError) =>
                    /\ t.met = 6
                    /\ t.err = [kind |-> t.last.kind, attempt |-> 6]
            /\ t.pc # "returned_default"

\* one call has failed three times while the other returned at its first
\* attempt
C14_Witness ==
    /\ threads[1].pc = "loop"
    /\ threads[1].met = 3
    /\ threads[1].attempt = 3
    /\ threads[2].pc = "returned"
    /\ threads[2].met = 1
    /\ threads[1].adapter.cls = "GeminiModel"
    /\ threads[2].adapter.cls = "GeminiModel"

-----------------------------------------------------------------------------
(* Properties of an adapter over several calls *)

\* C15: an adapter keeps nothing from one call to the next: in every call,
\* the first as well as one made after earlier calls that returned or were
\* exhausted, the loop variable counts the attempts of this call alone, from
\* attempt 1 up to the budget of 6, and the adapter's model_name and
\* credential are those given at construction.
C15_StatelessAcrossCalls ==
    pc \in {"ready"} \cup InLoop \cup Ended =>
        /\ adapter.model_name = created.name
        /\ adapter.api_key = env[RuleKey(Rule(created.name))]
        /\ adapter.api_key \notin {None, ""}
        /\ pc = "loop" => attempt = Calls(log) /\ attempt <= 5
        /\ pc \in {"sleep"} \cup InTransport =>
                attempt = Calls(log) - 1 /\ attempt <= 5
        /\ (pc = "loop" /\ log = <<>>) => attempt = 0 /\ sent = <<>>
        /\ (pc = "raised" /\ err.attempt # 0) => Len(sent) = 6
        /\ pc = "returned" => Len(sent) = last.attempt

\* a later call of an adapter that has reached its 6th attempt
C15_Witness ==
    /\ reused
    /\ pc = "returned"
    /\ Len(sent) = 6
    /\ adapter.cls = "OpenAILikeModel"
    /\ adapter.api_key = "sk-oai"

\* C16: at every point of a call the transport has been called at most 6
\* times; every sleep lasts the fixed delay 1 and directly follows a failed
\* attempt that is not the 6th; while the loop runs every attempt so far has
\* failed and has been followed by one sleep; once the call has ended its
\* last transport call, successful or the 6th failure, is followed by no
\* sleep, so the sleeps are one fewer than the transport calls.
C16_SleepsFollowRetriedFailures ==
    /\ Calls(log) <= 6
    /\ \A i \in 1..Len(log) :
         log[i].op = "sleep" =>
            /\ log[i].secs = 1
            /\ i > 1 /\ log[i - 1].op = "transport"
            /\ Calls(SubSeq(log, 1, i)) < 6
    /\ pc = "loop" =>
         /\ Sleeps(log) = Calls(log)
         /\ Calls(log) = attempt
         /\ log # <<>> => ~last.ok /\ log[Len(log)].op = "sleep"
    /\ pc \in InTransport =>
         /\ Sleeps(log) = Calls(log) - 1
         /\ log[Len(log)].op = "transport"
    /\ pc = "sleep" =>
         /\ Sleeps(log) = Calls(log)
         /\ log[Len(log)].op = "sleep"
         /\ ~last.ok /\ last.attempt = Calls(log) /\ last.attempt < 6
    /\ (pc \in Ended /\ log # <<>>) =>
         /\ log[Len(log)].op = "transport"
         /\ Sleeps(log) = Calls(log) - 1
    /\ (pc = "returned" /\ log # <<>>) => last.ok
    /\ (pc = "raised" /\ Calls(log) = 6) => ~last.ok /\ Sleeps(log) = 5

\* a call that returned on its 3rd attempt, after two failures and two sleeps
C16_Witness ==
    /\ pc = "returned"
    /\ last.ok
    /\ Calls(log) = 3
    /\ Sleeps(log) = 2
    /\ log[2] = [op |-> "sleep", secs |-> 1]

\* the conversation passed to the current call starts with a system message
StartsWithSystem == conversation # <<>> /\ conversation[1].role = "system"

\* the response_format of the current call is a json_object one
WantsJson ==
    ~args.response_format.isNone /\ args.response_format.type = "json_object"

\* C17: every message array the Claude adapter transmits is the conversation
\* without its leading system message, followed by exactly one added message
\* of role assistant and content { as its last entry when response_format is
\* json_object, and by nothing when response_format is absent or of another
\* type.
C17_PrefillIffJsonObject ==
    adapter.cls = "AnthropicModel" =>
        \A i \in 1..Len(sent) :
            LET m == sent[i].messages
                off == IF StartsWithSystem THEN 1 ELSE 0
                n == Len(conversation) - off
            IN  /\ \A j \in 1..n : m[j] = conversation[j + off]
                /\ (Len(m) = n + 1) <=> WantsJson
                /\ (Len(m) = n) <=> ~WantsJson
                /\ WantsJson => m[Len(m)] = [role |-> "assistant", content |-> "{"]

\* a retried call with a response_format of another type: nothing is added
C17_Witness ==
    /\ adapter.cls = "AnthropicModel"
    /\ args.response_format = Format("text")
    /\ conversation = <<Message("user", "c1"), Message("assistant", "c2")>>
    /\ Len(sent) = 2
    /\ sent[2].messages = conversation

\* C18: for a conversation that does not start with a system message, every
\* request of the Gemini adapter holds exactly one turn per message, in
\* order, nothing injected, with role user kept and every other role, a
\* system message after the first position included, turned into model.
C18_GeminiNoLeadingSystem ==
    (adapter.cls = "GeminiModel" /\ ~StartsWithSystem) =>
        \A i \in 1..Len(sent) :
            LET c == sent[i].contents
            IN  /\ Len(c) = Len(conversation)
                /\ \A j \in 1..Len(conversation) :
                        /\ c[j].parts = <<conversation[j].content>>
                        /\ c[j].role =
                             IF conversation[j].role = "user" THEN "user" ELSE "model"

C18_Witness ==
    /\ adapter.cls = "GeminiModel"
    /\ conversation = <<Message("user", "c1"), Message("system", "c2"),
                        Message("user", "c3")>>
    /\ Len(sent) = 1
    /\ sent[1].contents = <<[role |-> "user", parts |-> <<"c1">>],
                            [role |-> "model", parts |-> <<"c2">>],
                            [role |-> "user", parts |-> <<"c3">>]>>

\* C19: for a conversation that does not start with a system message, every
\* request of the Claude adapter has the empty string as its system field and
\* carries the whole conversation, a later system message included, in its
\* order and with its contents (behind it only the prefill of a json_object
\* call).
C19_ClaudeNoLeadingSystem ==
    (adapter.cls = "AnthropicModel" /\ ~StartsWithSystem) =>
        \A i \in 1..Len(sent) :
            LET m == sent[i].messages
                n == Len(conversation)
            IN  /\ sent[i].system = ""
                /\ Len(m) >= n
                /\ SubSeq(m, 1, n) = conversation
                /\ ~WantsJson => m = conversation
                /\ WantsJson => m = Append(conversation,
                                           [role |-> "assistant", content |-> "{"])

C19_Witness ==
    /\ adapter.cls = "AnthropicModel"
    /\ args.response_format = NoFormat
    /\ conversation = <<Message("user", "c1"), Message("system", "c2"),
                        Message("assistant", "c3")>>
    /\ Len(sent) = 1
    /\ sent[1].system = ""
    /\ sent[1].messages = conversation

\* C20: within one call every attempt transmits the same request as the
\* first: for the Claude adapter the same system field and message array,
\* with the prefill present once and not appended again on a retry, and for
\* the Gemini adapter the same remapped array and generation settings.
C20_SameRequestEveryAttempt ==
    \A i \in 1..Len(sent) :
        /\ sent[i] = sent[1]
        /\ adapter.cls = "AnthropicModel" =>
              /\ sent[i].system = sent[1].system
              /\ sent[i].messages = sent[1].messages
              /\ Len(sent[i].messages) <= Len(conversation) + 1
        /\ adapter.cls = "GeminiModel" =>
              /\ sent[i].contents = sent[1].contents
              /\ Len(sent[i].contents) <= Len(conversation) + 1

\* the 6th attempt of a json_object call of the Claude adapter
C20_Witness ==
    /\ adapter.cls = "AnthropicModel"
    /\ WantsJson
    /\ conversation = <<Message("system", "c1"), Message("user", "c2")>>
    /\ Len(sent) = 6
    /\ sent[6].messages = <<Message("user", "c2"), Message("assistant", "{")>>
    /\ sent[6].system = "c1"

-----------------------------------------------------------------------------
(* Properties of the factory's credential resolution, continued *)

\* the environment variable of the rule the created name matches
MatchedKey == RuleKey(Rule(created.name))

\* C21: create() succeeds exactly when the environment variable of the rule
\* that matched holds a non-empty value, whatever the other three variables
\* hold: a missing credential of another family never makes it fail, a
\* present one never makes it succeed, and the adapter it returns carries the
\* matched variable's value.
C21_OnlyMatchedSlotRead ==
    pc # "start" =>
        /\ (created.outcome = "returned") <=> (env[MatchedKey] \notin {None, ""})
        /\ (created.outcome = "raised") <=> (env[MatchedKey] \in {None, ""})
        /\ created.outcome = "returned" => adapter.api_key = env[MatchedKey]
        /\ created.outcome = "raised" => created.error.message[2] = MatchedKey

\* a deepseek name fails with only its own credential missing
C21_Witness ==
    /\ pc = "init_failed"
    /\ Rule(created.name) = 3
    /\ env["DEEPSEEK_API_KEY"] = None
    /\ \A k \in Keys \ {"DEEPSEEK_API_KEY"} : env[k] \notin {None, ""}
    /\ adapter = NoAdapter

\* C22: when the matched rule's environment variable is set to the empty
\* string, create() raises the error it raises when the variable is absent,
\* naming that variable, and no adapter exists afterwards.
C22_EmptyCredentialIsMissing ==
    (pc # "start" /\ env[MatchedKey] = "") =>
        /\ pc = "init_failed"
        /\ created.outcome = "raised"
        /\ created.error.type = "ValueError"
        /\ created.error.message =
                <<"Environment variable '", MatchedKey, "' is not set.">>
        /\ adapter = NoAdapter

\* a gemini name with GOOGLE_API_KEY set to the empty string
C22_Witness ==
    /\ pc = "init_failed"
    /\ Rule(created.name) = 2
    /\ env["GOOGLE_API_KEY"] = ""
    /\ created.error.message[2] = "GOOGLE_API_KEY"
    /\ adapter = NoAdapter

-----------------------------------------------------------------------------
(* Properties of Z3VerificationEngine *)

\* C23: after add_constraint has raised for an operator it does not know,
\* the engine is as it was before the call: the same registered variables,
\* the same assertions in the solver and the same constraints_added, also
\* when the left-hand name was not registered before.
C23_UnknownOperatorLeavesEngine ==
    (engine_call.op = "add_constraint" /\ engine_call.raised.type = "ValueError") =>
        /\ engine.variables = engine_call.before.variables
        /\ engine.assertions = engine_call.before.assertions
        /\ engine.constraints_added = engine_call.before.constraints_added

====
